---- MODULE Spec2Model ----
(***************************************************************************)
(* Staging -> production promotion workflow of the blog pipeline:          *)
(* Publisher (scraper-rust/src/publisher.rs) over the object store and the *)
(* article table (scraper-rust/src/storage.rs), together with the admin    *)
(* API handlers of blog-service-rust that write the same article table.    *)
(*                                                                         *)
(* Object keys are sequences of path segments.  A segment is a record      *)
(* [name, ts]: an ordinary segment has a name and ts = <<>>; a segment     *)
(* that was produced by formatting an instant ("%Y-%m-%d-%H-%M") has       *)
(* name = "" and ts = the sequence of its '-'-separated numeric fields.    *)
(* Ordinary names of this model never split into five '-' fields.          *)
(***************************************************************************)
EXTENDS Integers, Sequences, FiniteSets, TLC

\* ------------------------------------------------------------------ bounds
MaxClock == 1          \* number of clock ticks the model lets pass
MaxVersion == 2        \* promotions are not started beyond this version
MaxRev == 1            \* number of content edits through the admin API
MaxFaults == 1         \* number of backend calls that may fail in a run
MaxInstant == 2        \* seconds the monotonic clock of the cache advances

\* ----------------------------------------------------------- the wall clock
\* The clock advances in ticks of 30 seconds from 2024-12-31T23:59:30Z:
\* tick 1 crosses a minute and a year, a tick after it stays in the minute
\* of tick 1.
\* Utc::now().timestamp() at tick c
Timestamp(c) == 1735689570 + c * 30

\* chrono's proleptic Gregorian calendar (days since 1970-01-01 <-> civil)
CivilFromDays(z0) ==
    LET z   == z0 + 719468
        era == z \div 146097
        doe == z - era * 146097
        yoe == (doe - doe \div 1460 + doe \div 36524 - doe \div 146096) \div 365
        doy == doe - (365 * yoe + yoe \div 4 - yoe \div 100)
        mp  == (5 * doy + 2) \div 153
        d   == doy - (153 * mp + 2) \div 5 + 1
        m   == IF mp < 10 THEN mp + 3 ELSE mp - 9
        y   == yoe + era * 400 + (IF m <= 2 THEN 1 ELSE 0)
    IN  <<y, m, d>>

DaysFromCivil(y0, m, d) ==
    LET y   == IF m <= 2 THEN y0 - 1 ELSE y0
        era == y \div 400
        yoe == y - era * 400
        doy == (153 * (IF m > 2 THEN m - 3 ELSE m + 9) + 2) \div 5 + d - 1
        doe == yoe * 365 + yoe \div 4 - yoe \div 100 + doy
    IN  era * 146097 + doe - 719468

IsLeap(y) == (y % 4 = 0 /\ y % 100 # 0) \/ y % 400 = 0

DaysInMonth(y, m) ==
    IF m = 2 THEN (IF IsLeap(y) THEN 29 ELSE 28)
    ELSE IF m \in {4, 6, 9, 11} THEN 30 ELSE 31

\* Utc::now().format("%Y-%m-%d-%H-%M"): the fields of the instant, seconds
\* dropped
FormatMinute(secs) ==
    LET days == secs \div 86400
        rem  == secs % 86400
        ymd  == CivilFromDays(days)
    IN  <<ymd[1], ymd[2], ymd[3], rem \div 3600, (rem % 3600) \div 60>>

\* Utc::now().format("%Y")
FormatYear(secs) == CivilFromDays(secs \div 86400)[1]

\* DateTime::parse_from_rfc3339("{}-{}-{}T{}:{}:00Z"): None (here -1) when
\* a field is out of range
ParseRfc3339(parts) ==
    IF /\ parts[1] \in 0..9999
       /\ parts[2] \in 1..12
       /\ parts[3] \in 1..DaysInMonth(parts[1], parts[2])
       /\ parts[4] \in 0..23
       /\ parts[5] \in 0..59
    THEN DaysFromCivil(parts[1], parts[2], parts[3]) * 86400
            + parts[4] * 3600 + parts[5] * 60
    ELSE -1

\* --------------------------------------------------------------- key layout
Langs == <<"en", "es", "uk">>
Ids == {"a1"}

Seg(n) == [name |-> n, ts |-> <<>>]
TsSeg(parts) == [name |-> "", ts |-> parts]

\* "{id}-{lang}.html"
PdpFile(id, lang) == Seg(id \o "-" \o lang \o ".html")

\* publisher.rs:63  "staging/articles/{id}-{lang}.html"
StagingKey(id, lang) == <<Seg("staging"), Seg("articles"), PdpFile(id, lang)>>

\* publisher.rs:181, 223  "production/articles/{id}-{lang}.html"
ProductionKey(id, lang) == <<Seg("production"), Seg("articles"), PdpFile(id, lang)>>

\* publisher.rs:175  "backups/articles/{id}/{timestamp}/"
ArticleBackupPrefix(id, parts) ==
    <<Seg("backups"), Seg("articles"), Seg(id), TsSeg(parts)>>

\* publisher.rs:182  "{backup_prefix}{id}-{lang}.html"
ArticleBackupKey(id, parts, lang) ==
    ArticleBackupPrefix(id, parts) \o <<PdpFile(id, lang)>>

\* publisher.rs:93-100, 199-209, 238-246: the listing pages, one per
\* language and the default index.html, which is rendered in English
PlpFiles ==
    <<Seg("index-en.html"), Seg("index-es.html"), Seg("index-uk.html"),
      Seg("index.html")>>
PlpLangs == <<"en", "es", "uk", "en">>

\* "staging/index-{lang}.html", "staging/index.html"
PlpStagingKey(i) == <<Seg("staging"), PlpFiles[i]>>

\* mutant of PlpProductionKey: the listing is promoted into the folder of
\* the article pages
PlpProductionKeyInArticles(i) ==
    <<Seg("production"), Seg("articles"), PlpFiles[i]>>

\* "production/index-{lang}.html", "production/index.html"
PlpProductionKey(i) == <<Seg("production"), PlpFiles[i]>>

\* publisher.rs:196  "backups/plp/{timestamp}/"
PlpBackupKey(parts, i) ==
    <<Seg("backups"), Seg("plp"), TsSeg(parts), PlpFiles[i]>>

\* a prefix that ends in "/" matches whole leading segments
HasPrefix(key, pre) ==
    Len(pre) <= Len(key) /\ SubSeq(key, 1, Len(pre)) = pre

\* key.replace(source_prefix, dest_prefix)
ReplacePrefix(key, src, dst) == dst \o SubSeq(key, Len(src) + 1, Len(key))

\* ------------------------------------------------------------ object store
\* The bucket is a function from the keys it holds to their content.
NoObject == [lang |-> "", rev |-> -1, version |-> -1, published_at |-> <<>>, year |-> -1]

PutObject(s, k, c) == [x \in DOMAIN s \cup {k} |-> IF x = k THEN c ELSE s[x]]

\* Storage::copy_s3_file on a source that exists
CopyObject(s, src, dst) == PutObject(s, dst, s[src])

\* the loop of Storage::copy_s3_prefix over the listed keys `from`
CopyKeys(s, from, src, dst) ==
    LET to == {ReplacePrefix(k, src, dst) : k \in from}
    IN  [x \in DOMAIN s \cup to |->
            IF x \in to
            THEN s[CHOOSE k \in from : ReplacePrefix(k, src, dst) = x]
            ELSE s[x]]

\* Storage::copy_s3_prefix when every call succeeds
CopyPrefix(s, src, dst) ==
    CopyKeys(s, {k \in DOMAIN s : HasPrefix(k, src)}, src, dst)

\* S3 lists in byte order of the key: digits sort before letters, and the
\* fields of a formatted instant are zero-padded, so they sort as numbers.
NameRank(n) ==
    CASE n = "articles" -> 1
      [] n = "latest"   -> 2
      [] n = "plp"      -> 3
      [] OTHER          -> 4

RECURSIVE TsLess(_, _)
TsLess(a, b) ==
    IF a = <<>> THEN b # <<>>
    ELSE IF b = <<>> THEN FALSE
    ELSE IF Head(a) # Head(b) THEN Head(a) < Head(b)
    ELSE TsLess(Tail(a), Tail(b))

SegLess(a, b) ==
    IF a.name = "" /\ b.name = "" THEN TsLess(a.ts, b.ts)
    ELSE IF a.name = "" THEN TRUE
    ELSE IF b.name = "" THEN FALSE
    ELSE NameRank(a.name) < NameRank(b.name)

RECURSIVE SortSegs(_)
SortSegs(S) ==
    IF S = {} THEN <<>>
    ELSE LET m == CHOOSE x \in S : \A y \in S \ {x} : SegLess(x, y)
         IN  <<m>> \o SortSegs(S \ {m})

\* Storage::list_s3_prefixes(prefix) with delimiter "/": the common
\* prefixes one segment below `pre`, in listing order
ListPrefixes(s, pre) ==
    LET below == {k \in DOMAIN s : HasPrefix(k, pre) /\ Len(k) > Len(pre) + 1}
        segs  == {k[Len(pre) + 1] : k \in below}
        order == SortSegs(segs)
    IN  [i \in 1..Len(order) |-> pre \o <<order[i]>>]

\* ------------------------------------------------------------ list_backups
\* timestamp.split('-'): a formatted instant splits into its fields, any
\* other name of this model into fewer than five parts
SplitDash(seg) == IF seg.name = "" THEN seg.ts ELSE <<seg.name>>

\* Publisher::parse_timestamp; never an Err
ParseTimestamp(seg) ==
    LET parts == SplitDash(seg)
    IN  IF Len(parts) # 5 THEN 0
        ELSE IF ParseRfc3339(parts) = -1 THEN 0 ELSE ParseRfc3339(parts)

\* p.contains("latest")
ContainsLatest(path) == \E i \in 1..Len(path) : path[i].name = "latest"

\* the entry list_backups builds for one prefix: path.replace("backups/",
\* "").replace("/", "") is the segment below backups/
MakeBackupInfo(path) ==
    [timestamp  |-> path[2],
     path       |-> path,
     created_at |-> ParseTimestamp(path[2])]

\* mutant of InsertDesc: a.created_at.cmp(&b.created_at), oldest first
RECURSIVE InsertAsc(_, _)
InsertAsc(sorted, e) ==
    IF sorted = <<>> THEN <<e>>
    ELSE IF Head(sorted).created_at <= e.created_at
         THEN <<Head(sorted)>> \o InsertAsc(Tail(sorted), e)
         ELSE <<e>> \o sorted

\* Vec::sort_by(|a, b| b.created_at.cmp(&a.created_at)): stable, descending
RECURSIVE InsertDesc(_, _)
InsertDesc(sorted, e) ==
    IF sorted = <<>> THEN <<e>>
    ELSE IF Head(sorted).created_at >= e.created_at
         THEN <<Head(sorted)>> \o InsertDesc(Tail(sorted), e)
         ELSE <<e>> \o sorted

RECURSIVE SortByCreatedDesc(_)
SortByCreatedDesc(seq) ==
    IF seq = <<>> THEN <<>>
    ELSE InsertDesc(SortByCreatedDesc(SubSeq(seq, 1, Len(seq) - 1)), seq[Len(seq)])

RECURSIVE FilterLatest(_)
FilterLatest(seq) ==
    IF seq = <<>> THEN <<>>
    ELSE IF ContainsLatest(Head(seq)) THEN FilterLatest(Tail(seq))
         ELSE <<Head(seq)>> \o FilterLatest(Tail(seq))

\* Publisher::list_backups over the prefixes the listing returned
BackupInfos(prefixes) ==
    LET kept == FilterLatest(prefixes)
    IN  SortByCreatedDesc([i \in 1..Len(kept) |-> MakeBackupInfo(kept[i])])

ListBackups(s) == BackupInfos(ListPrefixes(s, <<Seg("backups")>>))

\* ---------------------------------------------------------- article record
Statuses == {"pending", "approved", "staged", "published", "rejected"}
NoTime == -1

\* Article::new: status Pending, PublishingMetadata::default()
NewArticle ==
    [status |-> "pending", rev |-> 0, version |-> 0,
     staged_at |-> NoTime, staged_by |-> "",
     published_at |-> NoTime, published_by |-> "",
     staging_url |-> "", production_url |-> ""]

StagingUrl(id) == "https://staging.yourdomain.com/articles/" \o id \o "-en.html"
ProductionUrl(id) == "https://yourdomain.com/articles/" \o id \o "-en.html"

\* HtmlGenerator::format_timestamp: "%Y-%m-%d %H:%M UTC" or "Not published"
FormatPublished(ts) == IF ts = NoTime THEN <<>> ELSE FormatMinute(ts)

\* mutant of Render: the page prints publishing.staged_at as its date
RenderStamped(a, lang, now) ==
    [lang |-> lang, rev |-> a.rev, version |-> a.version,
     published_at |-> FormatPublished(a.staged_at),
     year |-> FormatYear(now)]

\* HtmlGenerator::generate_article_html: the document is determined by the
\* language, the title and text (rev; translations are None as Article::new
\* leaves them), publishing.version (twice), the formatted published_at and
\* the year of the wall clock in the footer.
Render(a, lang, now) ==
    [lang |-> lang, rev |-> a.rev, version |-> a.version,
     published_at |-> FormatPublished(a.published_at),
     year |-> FormatYear(now)]

\* HtmlGenerator::generate_listing_html: a card (id, title and text) for
\* each article handed in, the language, the year of the wall clock
RenderListing(articles, lang, now) ==
    [lang |-> lang, cards |-> articles, year |-> FormatYear(now)]

\* publisher.rs:69-75
StagedRecord(a, id, now, actor) ==
    [a EXCEPT !.status = "staged", !.staged_at = now, !.staged_by = actor,
              !.staging_url = StagingUrl(id)]

\* publisher.rs:121-128
PublishedRecord(a, id, now, actor) ==
    [a EXCEPT !.status = "published", !.published_at = now,
              !.published_by = actor, !.production_url = ProductionUrl(id),
              !.version = a.version + 1]

\* mutant of ProdPhases: the record is saved before the pages are promoted
ProdPhasesSaveFirst == <<"backup", "save", "promote", "invalidate">>

\* publisher.rs:113-133: the steps of publish_article_to_production in
\* program order
ProdPhases == <<"backup", "promote", "save", "invalidate">>

PhaseAfter(ph) ==
    LET k == CHOOSE j \in 1..Len(ProdPhases) : ProdPhases[j] = ph
    IN  IF k = Len(ProdPhases) THEN "done" ELSE ProdPhases[k + 1]

StageActors == {"alice"}
ProdActors == {"lambda"}

\* ------------------------------------------------- blog-service cache.rs
\* Cache<T>: a map from key to CacheEntry {value, expires_at} and a TTL
Keys == {"key1", "key2"}
Vals == {"value1", "value2"}
Ttls == {0, 1, 2}

None == [some |-> FALSE, value |-> ""]
Some(v) == [some |-> TRUE, value |-> v]

\* Cache::new(ttl_seconds)
NewCache(ttl_seconds) == [data |-> <<>>, ttl |-> ttl_seconds]

\* mutant of CacheGet: entry.expires_at >= Instant::now()
CacheGetInclusive(c, key, now) ==
    IF key \in DOMAIN c.data /\ c.data[key].expires_at >= now
    THEN Some(c.data[key].value) ELSE None

\* cache.rs:27-35  Cache::get
CacheGet(c, key, now) ==
    IF key \in DOMAIN c.data /\ c.data[key].expires_at > now
    THEN Some(c.data[key].value) ELSE None

\* HashMap::retain
Retain(data, keep) == [k \in DOMAIN data \cap keep |-> data[k]]

\* mutant of CacheSet: the insert also drops the entries that have expired
CacheSetEvicting(c, key, value, now) ==
    LET kept == {k \in DOMAIN c.data : c.data[k].expires_at > now}
    IN  [c EXCEPT !.data =
            [k \in kept \cup {key} |->
                IF k = key THEN [value |-> value, expires_at |-> now + c.ttl]
                ELSE c.data[k]]]

\* cache.rs:38-44  Cache::set: HashMap::insert of a fresh entry
CacheSet(c, key, value, now) ==
    [c EXCEPT !.data =
        [k \in DOMAIN c.data \cup {key} |->
            IF k = key THEN [value |-> value, expires_at |-> now + c.ttl]
            ELSE c.data[k]]]

\* mutant of CacheInvalidate: every entry is removed
CacheInvalidateAll(c, key) == [c EXCEPT !.data = <<>>]

\* cache.rs:47-50  Cache::invalidate: HashMap::remove
CacheInvalidate(c, key) ==
    [c EXCEPT !.data = Retain(c.data, DOMAIN c.data \ {key})]

\* cache.rs:53-56  Cache::clear
CacheClear(c) == [c EXCEPT !.data = <<>>]

\* cache.rs:59-63  Cache::cleanup: retain(|_, entry| entry.expires_at > now)
CacheCleanup(c, now) ==
    [c EXCEPT !.data =
        Retain(c.data, {k \in DOMAIN c.data : c.data[k].expires_at > now})]

\* cache.rs:66-69  Cache::size
CacheSize(c) == Cardinality(DOMAIN c.data)

\* ------------------------------------------------------------------- state
VARIABLES
    db,         \* article table: id -> record
    store,      \* the bucket: key -> content
    clock,      \* ticks of the wall clock
    faults,     \* backend calls that have failed so far
    cdnOn,      \* Publisher was built with_cloudfront
    inv,        \* the invocation in each slot: operation, position, locals
                \* (and, as history, the production pages at its start)
    stageHist,  \* history: what the last staging left, while nothing changed it
    successes,  \* history: promotions per article that returned success
    cache,      \* the Cache of the blog service: data and ttl
    instant,    \* Instant::now(), the monotonic clock, in seconds
    cacheCall,  \* the last call on the cache and what it returned
    cacheHist   \* history per key: the last set, and what happened since

pubVars == <<db, store, clock, faults, cdnOn, inv, stageHist, successes>>

cacheVars == <<cache, instant, cacheCall, cacheHist>>

vars == <<db, store, clock, faults, cdnOn, inv, stageHist, successes,
          cache, instant, cacheCall, cacheHist>>

NoCall ==
    [op |-> "none", key |-> "", value |-> "", ret |-> None, size |-> 0,
     now |-> 0]

\* history of a key: live while it has been set and not removed since;
\* value and time of the last set; invalidated since the last set; lapsed
\* once a get has found its entry expired
NoKeyHist ==
    [live |-> FALSE, value |-> "", at |-> 0, invalidated |-> FALSE,
     lapsed |-> FALSE]

\* the publishing workflow constructs no Cache and calls none
NoCacheInUse ==
    /\ cache = NewCache(0)
    /\ instant = 0
    /\ cacheCall = NoCall
    /\ cacheHist = [k \in Keys |-> NoKeyHist]

\* the invocations that can be in progress: one per Lambda instance
Slots == DOMAIN inv

Now == Timestamp(clock)

Idle ==
    [op |-> "idle", pc |-> "idle", id |-> "", actor |-> "", arg |-> <<>>,
     article |-> NewArticle, i |-> 0, bts |-> <<>>, prefix |-> <<>>,
     res |-> "", log |-> <<>>, newStatus |-> "", edit |-> FALSE, t0 |-> 0,
     infos |-> <<>>, before |-> <<>>, listed |-> {}]

NoHist == [valid |-> FALSE, rec |-> NewArticle, objs |-> <<>>, t0 |-> 0]

Event(e, k, ok) == [e |-> e, key |-> k, ok |-> ok]

Logged(r, e, k, ok) == [r EXCEPT !.log = Append(r.log, Event(e, k, ok))]

Finish(r, result) == [r EXCEPT !.pc = "done", !.res = result]

\* the step after phase ph of publish_article_to_production
Advance(r, ph) ==
    IF PhaseAfter(ph) = "done" THEN Finish(r, "ok")
    ELSE [r EXCEPT !.pc = PhaseAfter(ph), !.i = 1]

\* next language of a for-loop over ["en", "es", "uk"], or leave the loop
NextLang(r, after) ==
    IF r.i < Len(Langs) THEN [r EXCEPT !.i = r.i + 1] ELSE after

\* the production pages of an article, NoObject for a missing one
ProductionObjs(s, id) ==
    [k \in 1..Len(Langs) |->
        IF ProductionKey(id, Langs[k]) \in DOMAIN s
        THEN s[ProductionKey(id, Langs[k])] ELSE NoObject]

StagingObjs(s, id) ==
    [k \in 1..Len(Langs) |->
        IF StagingKey(id, Langs[k]) \in DOMAIN s
        THEN s[StagingKey(id, Langs[k])] ELSE NoObject]

Init ==
    /\ db = [id \in Ids |-> NewArticle]
    /\ store = <<>>
    /\ clock = 0
    /\ faults = 0
    /\ cdnOn \in BOOLEAN
    /\ inv = [p \in {1} |-> Idle]
    /\ stageHist = [id \in Ids |-> NoHist]
    /\ NoCacheInUse
    /\ successes = [id \in Ids |-> 0]

Tick ==
    /\ clock < MaxClock
    /\ clock' = clock + 1
    /\ UNCHANGED <<db, store, faults, cdnOn, inv, stageHist, successes, cacheVars>>

\* a backend call (DynamoDB, S3, CloudFront) fails: the `?` after the await
\* returns the error to the caller of the operation
Fails(p, op, pc, result) ==
    /\ inv[p].op = op /\ inv[p].pc = pc
    /\ faults < MaxFaults
    /\ faults' = faults + 1
    /\ inv' = [inv EXCEPT ![p] = Finish(inv[p], result)]

\* --------------------------------------- Publisher::publish_article_to_staging
\* publisher.rs:56  get_article
PublishArticleToStagingStart(p, id, actor) ==
    /\ inv[p] = Idle
    /\ inv' = [inv EXCEPT ![p] =
            [Idle EXCEPT !.op = "stage", !.pc = "upload", !.id = id,
                         !.actor = actor, !.article = db[id], !.i = 1,
                         !.t0 = clock]]
    /\ UNCHANGED <<db, store, clock, faults, cdnOn, stageHist, successes, cacheVars>>

\* publisher.rs:61-66  render and upload one language
StagingUpload(p) ==
    LET r   == inv[p]
        key == StagingKey(r.id, Langs[r.i])
        q   == Logged(r, "put", key, TRUE)
    IN  /\ r.op = "stage" /\ r.pc = "upload"
        /\ store' = PutObject(store, key, Render(r.article, Langs[r.i], Now))
        /\ inv' = [inv EXCEPT ![p] = NextLang(q, [q EXCEPT !.pc = "save"])]
        /\ UNCHANGED <<db, clock, faults, cdnOn, stageHist, successes, cacheVars>>

\* publisher.rs:64  upload_html fails
StagingUploadFail(p) ==
    /\ Fails(p, "stage", "upload", "StorageError")
    /\ UNCHANGED <<db, store, clock, cdnOn, stageHist, successes, cacheVars>>

\* publisher.rs:69-80  update the record and save_article
StagingSave(p) ==
    LET r == inv[p]
    IN  /\ r.op = "stage" /\ r.pc = "save"
        /\ db' = [db EXCEPT ![r.id] = StagedRecord(r.article, r.id, Now, r.actor)]
        /\ inv' = [inv EXCEPT ![p] = Finish(Logged(r, "save", <<>>, TRUE), "ok")]
        /\ UNCHANGED <<store, clock, faults, cdnOn, stageHist, successes, cacheVars>>

\* publisher.rs:77  save_article fails
StagingSaveFail(p) ==
    /\ Fails(p, "stage", "save", "StorageError")
    /\ UNCHANGED <<db, store, clock, cdnOn, stageHist, successes, cacheVars>>

\* ------------------------------------ Publisher::publish_article_to_production
\* publisher.rs:110-111 get_article, then backup_article_pdp computes the
\* backup timestamp (publisher.rs:174) before its first storage call
PublishArticleToProductionStart(p, id, actor) ==
    /\ inv[p] = Idle
    /\ db[id].version < MaxVersion
    /\ successes[id] < MaxVersion
    /\ inv' = [inv EXCEPT ![p] =
            [Idle EXCEPT !.op = "prod", !.pc = ProdPhases[1], !.id = id,
                         !.actor = actor, !.article = db[id], !.i = 1,
                         !.bts = FormatMinute(Now), !.t0 = clock,
                         !.before = ProductionObjs(store, id)]]
    /\ UNCHANGED <<db, store, clock, faults, cdnOn, stageHist, successes, cacheVars>>

\* mutant of BackupArticlePdp: `copy_s3_file(..).await?`, a missing production
\* object ends the promotion
BackupArticlePdpStrict(p) ==
    LET r   == inv[p]
        src == ProductionKey(r.id, Langs[r.i])
        dst == ArticleBackupKey(r.id, r.bts, Langs[r.i])
        q   == Logged(r, "backup", dst, TRUE)
    IN  /\ r.op = "prod" /\ r.pc = "backup"
        /\ store' = IF src \in DOMAIN store THEN CopyObject(store, src, dst)
                    ELSE store
        /\ inv' = [inv EXCEPT ![p] =
              IF src \in DOMAIN store THEN NextLang(q, Advance(q, "backup"))
              ELSE Finish(r, "NotFound")]
        /\ UNCHANGED <<db, clock, faults, cdnOn, stageHist, successes, cacheVars>>

\* mutant of BackupArticlePdp: the backup is taken of the staging page
BackupArticlePdpOfStaging(p) ==
    LET r   == inv[p]
        src == ProductionKey(r.id, Langs[r.i])
        dst == ArticleBackupKey(r.id, r.bts, Langs[r.i])
        q   == IF src \in DOMAIN store THEN Logged(r, "backup", dst, TRUE)
               ELSE Logged(r, "backup_missing", dst, FALSE)
    IN  /\ r.op = "prod" /\ r.pc = "backup"
        /\ store' = IF src \in DOMAIN store
                    THEN CopyObject(store, StagingKey(r.id, Langs[r.i]), dst)
                    ELSE store
        /\ inv' = [inv EXCEPT ![p] = NextLang(q, Advance(q, "backup"))]
        /\ UNCHANGED <<db, clock, faults, cdnOn, stageHist, successes, cacheVars>>

\* publisher.rs:180-188  backup_article_pdp, one language: the copy is made
\* when the production object exists; a missing object is passed over
BackupArticlePdp(p) ==
    LET r   == inv[p]
        src == ProductionKey(r.id, Langs[r.i])
        dst == ArticleBackupKey(r.id, r.bts, Langs[r.i])
        q   == IF src \in DOMAIN store THEN Logged(r, "backup", dst, TRUE)
               ELSE Logged(r, "backup_missing", dst, FALSE)
    IN  /\ r.op = "prod" /\ r.pc = "backup"
        /\ store' = IF src \in DOMAIN store THEN CopyObject(store, src, dst)
                    ELSE store
        /\ inv' = [inv EXCEPT ![p] = NextLang(q, Advance(q, "backup"))]
        /\ UNCHANGED <<db, clock, faults, cdnOn, stageHist, successes, cacheVars>>

\* publisher.rs:185  copy_s3_file of an existing object fails: `if let
\* Ok(_)` passes over the error like over a missing object
BackupArticlePdpFail(p) ==
    LET r   == inv[p]
        src == ProductionKey(r.id, Langs[r.i])
        dst == ArticleBackupKey(r.id, r.bts, Langs[r.i])
        q   == Logged(r, "backup_error", dst, FALSE)
    IN  /\ r.op = "prod" /\ r.pc = "backup"
        /\ src \in DOMAIN store
        /\ faults < MaxFaults
        /\ faults' = faults + 1
        /\ inv' = [inv EXCEPT ![p] = NextLang(q, Advance(q, "backup"))]
        /\ UNCHANGED <<db, store, clock, cdnOn, stageHist, successes, cacheVars>>

\* mutant of PromoteArticleStagingToProduction: every production page is
\* copied from the English staging page
PromoteArticleEnglishOnly(p) ==
    LET r   == inv[p]
        src == StagingKey(r.id, "en")
        dst == ProductionKey(r.id, Langs[r.i])
        q   == Logged(r, "promote", dst, TRUE)
    IN  /\ r.op = "prod" /\ r.pc = "promote"
        /\ IF src \in DOMAIN store
           THEN /\ store' = CopyObject(store, src, dst)
                /\ inv' = [inv EXCEPT ![p] = NextLang(q, Advance(q, "promote"))]
           ELSE /\ store' = store
                /\ inv' = [inv EXCEPT ![p] = Finish(r, "NotFound")]
        /\ UNCHANGED <<db, clock, faults, cdnOn, stageHist, successes, cacheVars>>

\* publisher.rs:221-227  promote_article_staging_to_production, one
\* language; copying a staging object that does not exist is an error
PromoteArticleStagingToProduction(p) ==
    LET r   == inv[p]
        src == StagingKey(r.id, Langs[r.i])
        dst == ProductionKey(r.id, Langs[r.i])
        q   == Logged(r, "promote", dst, TRUE)
    IN  /\ r.op = "prod" /\ r.pc = "promote"
        /\ IF src \in DOMAIN store
           THEN /\ store' = CopyObject(store, src, dst)
                /\ inv' = [inv EXCEPT ![p] = NextLang(q, Advance(q, "promote"))]
           ELSE /\ store' = store
                /\ inv' = [inv EXCEPT ![p] = Finish(r, "NotFound")]
        /\ UNCHANGED <<db, clock, faults, cdnOn, stageHist, successes, cacheVars>>

\* publisher.rs:225  copy_s3_file fails
PromoteArticleStagingToProductionFail(p) ==
    /\ Fails(p, "prod", "promote", "StorageError")
    /\ UNCHANGED <<db, store, clock, cdnOn, stageHist, successes, cacheVars>>

\* mutant of ProductionSave: the version is incremented in the table, on
\* the record as it is stored at the time of the save
ProductionSaveAtomic(p) ==
    LET r == inv[p]
    IN  /\ r.op = "prod" /\ r.pc = "save"
        /\ db' = [db EXCEPT ![r.id] = PublishedRecord(db[r.id], r.id, Now, r.actor)]
        /\ inv' = [inv EXCEPT ![p] = Advance(Logged(r, "save", <<>>, TRUE), "save")]
        /\ stageHist' = [stageHist EXCEPT ![r.id] = NoHist]
        /\ UNCHANGED <<store, clock, faults, cdnOn, successes, cacheVars>>

\* publisher.rs:121-130  update the record and save_article
ProductionSave(p) ==
    LET r == inv[p]
    IN  /\ r.op = "prod" /\ r.pc = "save"
        /\ db' = [db EXCEPT ![r.id] = PublishedRecord(r.article, r.id, Now, r.actor)]
        /\ inv' = [inv EXCEPT ![p] = Advance(Logged(r, "save", <<>>, TRUE), "save")]
        /\ stageHist' = [stageHist EXCEPT ![r.id] = NoHist]
        /\ UNCHANGED <<store, clock, faults, cdnOn, successes, cacheVars>>

\* publisher.rs:130  save_article fails
ProductionSaveFail(p) ==
    /\ Fails(p, "prod", "save", "StorageError")
    /\ UNCHANGED <<db, store, clock, cdnOn, stageHist, successes, cacheVars>>

\* publisher.rs:133, 319-348  invalidate_production_cache("articles/{id}*"):
\* a request when CloudFront is configured, nothing otherwise
ProductionInvalidate(p) ==
    LET r    == inv[p]
        path == <<Seg("articles"), Seg(r.id \o "*")>>
        q    == IF cdnOn THEN Logged(r, "invalidate", path, TRUE) ELSE r
    IN  /\ r.op = "prod" /\ r.pc = "invalidate"
        /\ inv' = [inv EXCEPT ![p] = Advance(q, "invalidate")]
        /\ UNCHANGED <<db, store, clock, faults, cdnOn, stageHist, successes, cacheVars>>

\* publisher.rs:335-340  create_invalidation fails
ProductionInvalidateFail(p) ==
    /\ cdnOn
    /\ Fails(p, "prod", "invalidate", "CdnError")
    /\ UNCHANGED <<db, store, clock, cdnOn, stageHist, successes, cacheVars>>

\* publisher.rs:56, 110  get_article fails
GetArticleFail(p, id, op) ==
    /\ inv[p] = Idle
    /\ faults < MaxFaults
    /\ faults' = faults + 1
    /\ inv' = [inv EXCEPT ![p] =
            Finish([Idle EXCEPT !.op = op, !.id = id, !.article = db[id],
                                !.t0 = clock,
                                !.before = ProductionObjs(store, id)],
                   "StorageError")]
    /\ UNCHANGED <<db, store, clock, cdnOn, stageHist, successes, cacheVars>>

\* ------------------------------------------------------- Publisher::rollback
\* timestamps a caller may pass: the instants the clock can format
RollbackArgs ==
    {<<>>} \cup {<<TsSeg(FormatMinute(Timestamp(c)))>> : c \in 0..MaxClock}

\* mutant of RollbackStart: a timestamp whose prefix holds no object is
\* refused
RollbackStartChecked(p, arg) ==
    LET r0 == [Idle EXCEPT !.op = "rollback", !.arg = arg, !.t0 = clock]
        infos == ListBackups(store)
        pre == <<Seg("backups")>> \o arg
    IN  /\ inv[p] = Idle
        /\ inv' = [inv EXCEPT ![p] =
              IF arg # <<>> /\ \E k \in DOMAIN store : HasPrefix(k, pre)
              THEN [r0 EXCEPT !.pc = "copy", !.prefix = pre]
              ELSE IF arg # <<>> THEN Finish(r0, "NotFound")
              ELSE IF infos # <<>>
              THEN [r0 EXCEPT !.pc = "copy", !.prefix = infos[1].path]
              ELSE Finish(r0, "NoBackups")]
        /\ UNCHANGED <<db, store, clock, faults, cdnOn, stageHist, successes, cacheVars>>

\* publisher.rs:255-263  choose the backup prefix: "backups/{ts}/" for a
\* given timestamp, else the path of the first entry of list_backups
RollbackStart(p, arg) ==
    LET r0 == [Idle EXCEPT !.op = "rollback", !.arg = arg, !.t0 = clock]
        infos == ListBackups(store)
    IN  /\ inv[p] = Idle
        /\ inv' = [inv EXCEPT ![p] =
              IF arg # <<>>
              THEN [r0 EXCEPT !.pc = "copy", !.prefix = <<Seg("backups")>> \o arg]
              ELSE IF infos # <<>>
              THEN [r0 EXCEPT !.pc = "copy", !.prefix = infos[1].path]
              ELSE Finish(r0, "NoBackups")]
        /\ UNCHANGED <<db, store, clock, faults, cdnOn, stageHist, successes, cacheVars>>

\* publisher.rs:259, 281  list_s3_prefixes fails
RollbackListFail(p) ==
    /\ inv[p] = Idle
    /\ faults < MaxFaults
    /\ faults' = faults + 1
    /\ inv' = [inv EXCEPT ![p] =
            Finish([Idle EXCEPT !.op = "rollback", !.t0 = clock], "StorageError")]
    /\ UNCHANGED <<db, store, clock, cdnOn, stageHist, successes, cacheVars>>

\* mutant of RollbackCopy: the restore also rewinds the article records
RollbackCopyRewind(p) ==
    LET r == inv[p]
    IN  /\ r.op = "rollback" /\ r.pc = "copy"
        /\ store' = CopyPrefix(store, r.prefix, <<Seg("production")>>)
        /\ db' = [id \in Ids |->
                    [db[id] EXCEPT !.version = IF @ > 0 THEN @ - 1 ELSE 0]]
        /\ inv' = [inv EXCEPT ![p] =
              [Logged(r, "restore", r.prefix, TRUE) EXCEPT !.pc = "invalidate"]]
        /\ UNCHANGED <<clock, faults, cdnOn, stageHist, successes, cacheVars>>

\* publisher.rs:268  copy_s3_prefix(backup_prefix, "production/")
RollbackCopy(p) ==
    LET r == inv[p]
    IN  /\ r.op = "rollback" /\ r.pc = "copy"
        /\ store' = CopyPrefix(store, r.prefix, <<Seg("production")>>)
        /\ inv' = [inv EXCEPT ![p] =
              [Logged(r, "restore", r.prefix, TRUE) EXCEPT !.pc = "invalidate"]]
        /\ UNCHANGED <<db, clock, faults, cdnOn, stageHist, successes, cacheVars>>

\* storage.rs:156-167  the listing or one of the copies fails; the copies
\* made before it stay
RollbackCopyFail(p) ==
    LET r    == inv[p]
        from == {k \in DOMAIN store : HasPrefix(k, r.prefix)}
    IN  /\ Fails(p, "rollback", "copy", "StorageError")
        /\ \E done \in SUBSET from :
              /\ done # from \/ from = {}
              /\ store' = CopyKeys(store, done, r.prefix, <<Seg("production")>>)
        /\ UNCHANGED <<db, clock, cdnOn, stageHist, successes, cacheVars>>

\* publisher.rs:271  invalidate_production_cache("/*")
RollbackInvalidate(p) ==
    LET r    == inv[p]
        path == <<Seg(""), Seg("*")>>
        q    == IF cdnOn THEN Logged(r, "invalidate", path, TRUE) ELSE r
    IN  /\ r.op = "rollback" /\ r.pc = "invalidate"
        /\ inv' = [inv EXCEPT ![p] = Finish(q, "ok")]
        /\ UNCHANGED <<db, store, clock, faults, cdnOn, stageHist, successes, cacheVars>>

\* publisher.rs:335-340  create_invalidation fails
RollbackInvalidateFail(p) ==
    /\ cdnOn
    /\ Fails(p, "rollback", "invalidate", "CdnError")
    /\ UNCHANGED <<db, store, clock, cdnOn, stageHist, successes, cacheVars>>

\* ------------------------------------------- blog-service admin API handlers
ApiOps == {"api_stage", "api_prod", "api_update", "api_unpublish", "api_rollback"}

\* smart_publish.rs:41-52  get_article and the status check
PublishToStagingStart(p, id) ==
    LET r0 == [Idle EXCEPT !.op = "api_stage", !.id = id, !.actor = "admin",
                           !.article = db[id], !.t0 = clock]
    IN  /\ inv[p] = Idle
        /\ inv' = [inv EXCEPT ![p] =
              IF db[id].status # "approved" /\ db[id].status # "staged"
              THEN Finish(r0, "BAD_REQUEST")
              ELSE [r0 EXCEPT !.pc = "api_save"]]
        /\ UNCHANGED <<db, store, clock, faults, cdnOn, stageHist, successes, cacheVars>>

\* smart_publish.rs:91-102  get_article and the status check
PublishToProductionStart(p, id) ==
    LET r0 == [Idle EXCEPT !.op = "api_prod", !.id = id, !.actor = "admin",
                           !.article = db[id], !.t0 = clock]
    IN  /\ inv[p] = Idle
        /\ db[id].version < MaxVersion
        /\ inv' = [inv EXCEPT ![p] =
              IF db[id].status # "staged" /\ db[id].status # "published"
              THEN Finish(r0, "BAD_REQUEST")
              ELSE [r0 EXCEPT !.pc = "api_save"]]
        /\ UNCHANGED <<db, store, clock, faults, cdnOn, stageHist, successes, cacheVars>>

\* handlers.rs:36-40  get_article; the body carries an optional status and
\* optional title/content (edit)
UpdateArticleStart(p, id, newStatus, edit) ==
    /\ inv[p] = Idle
    /\ edit => db[id].rev < MaxRev
    /\ inv' = [inv EXCEPT ![p] =
          [Idle EXCEPT !.op = "api_update", !.pc = "api_save", !.id = id,
                       !.article = db[id], !.newStatus = newStatus,
                       !.edit = edit, !.t0 = clock]]
    /\ UNCHANGED <<db, store, clock, faults, cdnOn, stageHist, successes, cacheVars>>

\* handlers.rs:139-143  get_article
UnpublishArticleStart(p, id) ==
    /\ inv[p] = Idle
    /\ inv' = [inv EXCEPT ![p] =
          [Idle EXCEPT !.op = "api_unpublish", !.pc = "api_save", !.id = id,
                       !.article = db[id], !.t0 = clock]]
    /\ UNCHANGED <<db, store, clock, faults, cdnOn, stageHist, successes, cacheVars>>

\* smart_publish.rs:144-167  POST /admin/rollback: the handler builds its
\* message from the optional timestamp and answers 200; it calls nothing
ApiRollback(p, arg) ==
    /\ inv[p] = Idle
    /\ inv' = [inv EXCEPT ![p] =
          Finish([Idle EXCEPT !.op = "api_rollback", !.arg = arg,
                              !.t0 = clock], "ok")]
    /\ UNCHANGED <<db, store, clock, faults, cdnOn, stageHist, successes, cacheVars>>

\* the record each handler hands to Storage::update_article
\* (smart_publish.rs:55-63, 105-114; handlers.rs:42-50, 145)
ApiRecord(r, now) ==
    CASE r.op = "api_stage" ->
            [r.article EXCEPT !.status = "staged", !.staged_at = now,
                              !.staged_by = r.actor,
                              !.staging_url = StagingUrl(r.id)]
      [] r.op = "api_prod" ->
            [r.article EXCEPT !.status = "published", !.published_at = now,
                              !.published_by = r.actor,
                              !.version = r.article.version + 1,
                              !.production_url = ProductionUrl(r.id)]
      [] r.op = "api_update" ->
            [r.article EXCEPT
                !.rev = IF r.edit THEN r.article.rev + 1 ELSE r.article.rev,
                !.status = IF r.newStatus # "" THEN r.newStatus
                           ELSE r.article.status]
      [] r.op = "api_unpublish" ->
            [r.article EXCEPT !.status = "approved"]

\* blog-service storage.rs:127-138  Storage::update_article (put_item)
UpdateArticleSave(p) ==
    LET r == inv[p]
    IN  /\ r.pc = "api_save"
        /\ db' = [db EXCEPT ![r.id] = ApiRecord(r, Now)]
        /\ inv' = [inv EXCEPT ![p] = Finish(Logged(r, "save", <<>>, TRUE), "ok")]
        /\ stageHist' = IF ApiRecord(r, Now) = db[r.id] THEN stageHist
                        ELSE [stageHist EXCEPT ![r.id] = NoHist]
        /\ UNCHANGED <<store, clock, faults, cdnOn, successes, cacheVars>>

\* the table call of a handler fails: map_err(INTERNAL_SERVER_ERROR)
UpdateArticleSaveFail(p) ==
    /\ inv[p].pc = "api_save"
    /\ inv' = [inv EXCEPT ![p] = Finish(inv[p], "INTERNAL_SERVER_ERROR")]
    /\ UNCHANGED <<db, store, clock, faults, cdnOn, stageHist, successes, cacheVars>>

\* the invocation returns to its caller
Return(p) ==
    LET r == inv[p]
    IN  /\ r.pc = "done"
        /\ inv' = [inv EXCEPT ![p] = Idle]
        /\ stageHist' =
              IF r.op = "stage" /\ r.res = "ok"
              THEN [stageHist EXCEPT ![r.id] =
                      [valid |-> TRUE, rec |-> db[r.id],
                       objs |-> StagingObjs(store, r.id), t0 |-> r.t0]]
              ELSE IF r.op = "stage"
              THEN [stageHist EXCEPT ![r.id] = NoHist]
              ELSE stageHist
        /\ successes' =
              IF r.op \in {"prod", "api_prod"} /\ r.res = "ok"
              THEN [successes EXCEPT ![r.id] = @ + 1]
              ELSE successes
        /\ UNCHANGED <<db, store, clock, faults, cdnOn, cacheVars>>

\* --------------------------------------------------- Publisher::list_backups
\* publisher.rs:278-299 called on its own
ListBackupsCall(p) ==
    /\ inv[p] = Idle
    /\ inv' = [inv EXCEPT ![p] =
          Finish([Idle EXCEPT !.op = "list", !.infos = ListBackups(store),
                              !.t0 = clock], "ok")]
    /\ UNCHANGED <<db, store, clock, faults, cdnOn, stageHist, successes, cacheVars>>

\* Folders that may lie below backups/ in a bucket that has been in use:
\* "backups/{timestamp}/" as backup_production (publisher.rs:159-170) names
\* them, with well-formed and malformed timestamps, the folders of the
\* modular backups, and the "latest" folder list_backups filters out.
BackupDirs ==
    {TsSeg(FormatMinute(Timestamp(c))) : c \in 0..MaxClock}
    \cup {TsSeg(<<2024, 2, 29, 10, 0>>), TsSeg(<<2023, 2, 29, 10, 0>>),
          TsSeg(<<2024, 13, 1, 0, 0>>), TsSeg(<<2024, 11, 8, 14>>),
          Seg("articles"), Seg("plp"), Seg("latest")}

BucketWith(dirs) ==
    [k \in {<<Seg("backups"), d, Seg("index.html")>> : d \in dirs} |-> NoObject]

InitBackups ==
    /\ db = [id \in Ids |-> NewArticle]
    /\ \E dirs \in SUBSET BackupDirs : store = BucketWith(dirs)
    /\ clock = 0
    /\ faults = 0
    /\ cdnOn = FALSE
    /\ inv = [p \in {1} |-> Idle]
    /\ stageHist = [id \in Ids |-> NoHist]
    /\ NoCacheInUse
    /\ successes = [id \in Ids |-> 0]

\* ------------------------------------------------ Publisher: listing page
\* next file of the listing (three languages, then index.html), or leave
NextFile(r, after) ==
    IF r.i < Len(PlpFiles) THEN [r EXCEPT !.i = r.i + 1] ELSE after

PlpObjs(s, area) ==
    [i \in 1..Len(PlpFiles) |->
        IF <<Seg(area), PlpFiles[i]>> \in DOMAIN s
        THEN s[<<Seg(area), PlpFiles[i]>>] ELSE NoObject]

\* storage.rs:106-124  list_published_articles: the scan with
\* status = "published"
ListPublishedArticles ==
    {[id |-> id, rev |-> db[id].rev] : id \in {x \in Ids : db[x].status = "published"}}

\* publisher.rs:88  publish_plp_to_staging reads the published articles
PublishPlpToStagingStart(p) ==
    /\ inv[p] = Idle
    /\ inv' = [inv EXCEPT ![p] =
          [Idle EXCEPT !.op = "plp_stage", !.pc = "upload", !.i = 1,
                       !.listed = ListPublishedArticles, !.t0 = clock,
                       !.before = PlpObjs(store, "production")]]
    /\ UNCHANGED <<db, store, clock, faults, cdnOn, stageHist, successes, cacheVars>>

\* publisher.rs:88  the scan fails
PublishPlpToStagingStartFail(p) ==
    /\ inv[p] = Idle
    /\ faults < MaxFaults
    /\ faults' = faults + 1
    /\ inv' = [inv EXCEPT ![p] =
          Finish([Idle EXCEPT !.op = "plp_stage", !.t0 = clock,
                              !.before = PlpObjs(store, "production")],
                 "StorageError")]
    /\ UNCHANGED <<db, store, clock, cdnOn, stageHist, successes, cacheVars>>

\* publisher.rs:91-100  render and upload one listing file
PlpStagingUpload(p) ==
    LET r   == inv[p]
        key == PlpStagingKey(r.i)
        q   == Logged(r, "put", key, TRUE)
    IN  /\ r.op = "plp_stage" /\ r.pc = "upload"
        /\ store' = PutObject(store, key,
                              RenderListing(r.listed, PlpLangs[r.i], Now))
        /\ inv' = [inv EXCEPT ![p] = NextFile(q, Finish(q, "ok"))]
        /\ UNCHANGED <<db, clock, faults, cdnOn, stageHist, successes, cacheVars>>

\* publisher.rs:94, 100  upload_html fails
PlpStagingUploadFail(p) ==
    /\ Fails(p, "plp_stage", "upload", "StorageError")
    /\ UNCHANGED <<db, store, clock, cdnOn, stageHist, successes, cacheVars>>

\* publisher.rs:141-145  publish_plp_to_production enters backup_plp, which
\* computes the timestamp (publisher.rs:195)
PublishPlpToProductionStart(p) ==
    /\ inv[p] = Idle
    /\ inv' = [inv EXCEPT ![p] =
          [Idle EXCEPT !.op = "plp_prod", !.pc = "backup", !.i = 1,
                       !.bts = FormatMinute(Now), !.t0 = clock,
                       !.before = PlpObjs(store, "production")]]
    /\ UNCHANGED <<db, store, clock, faults, cdnOn, stageHist, successes, cacheVars>>

\* publisher.rs:201-211  backup_plp, one file: a missing index-{lang}.html
\* is passed over (`if let Ok(_)`), a missing index.html is an error (`?`)
BackupPlp(p) ==
    LET r   == inv[p]
        src == PlpProductionKey(r.i)
        dst == PlpBackupKey(r.bts, r.i)
        q   == IF src \in DOMAIN store THEN Logged(r, "backup", dst, TRUE)
               ELSE Logged(r, "backup_missing", dst, FALSE)
        nxt == [q EXCEPT !.pc = "promote", !.i = 1]
    IN  /\ r.op = "plp_prod" /\ r.pc = "backup"
        /\ store' = IF src \in DOMAIN store THEN CopyObject(store, src, dst)
                    ELSE store
        /\ inv' = [inv EXCEPT ![p] =
              IF src \notin DOMAIN store /\ r.i = Len(PlpFiles)
              THEN Finish(q, "NotFound")
              ELSE NextFile(q, nxt)]
        /\ UNCHANGED <<db, clock, faults, cdnOn, stageHist, successes, cacheVars>>

\* publisher.rs:205, 211  the copy of an existing page fails: passed over
\* for index-{lang}.html, returned for index.html
BackupPlpFail(p) ==
    LET r   == inv[p]
        src == PlpProductionKey(r.i)
        dst == PlpBackupKey(r.bts, r.i)
        q   == Logged(r, "backup_error", dst, FALSE)
        nxt == [q EXCEPT !.pc = "promote", !.i = 1]
    IN  /\ r.op = "plp_prod" /\ r.pc = "backup"
        /\ src \in DOMAIN store
        /\ faults < MaxFaults
        /\ faults' = faults + 1
        /\ inv' = [inv EXCEPT ![p] =
              IF r.i = Len(PlpFiles) THEN Finish(q, "StorageError")
              ELSE NextFile(q, nxt)]
        /\ UNCHANGED <<db, store, clock, cdnOn, stageHist, successes, cacheVars>>

\* publisher.rs:237-246  promote_plp_staging_to_production, one file
PromotePlpStagingToProduction(p) ==
    LET r   == inv[p]
        src == PlpStagingKey(r.i)
        dst == PlpProductionKey(r.i)
        q   == Logged(r, "promote", dst, TRUE)
    IN  /\ r.op = "plp_prod" /\ r.pc = "promote"
        /\ IF src \in DOMAIN store
           THEN /\ store' = CopyObject(store, src, dst)
                /\ inv' = [inv EXCEPT ![p] =
                      NextFile(q, [q EXCEPT !.pc = "invalidate"])]
           ELSE /\ store' = store
                /\ inv' = [inv EXCEPT ![p] = Finish(r, "NotFound")]
        /\ UNCHANGED <<db, clock, faults, cdnOn, stageHist, successes, cacheVars>>

\* publisher.rs:241, 246  copy_s3_file fails
PromotePlpStagingToProductionFail(p) ==
    /\ Fails(p, "plp_prod", "promote", "StorageError")
    /\ UNCHANGED <<db, store, clock, cdnOn, stageHist, successes, cacheVars>>

\* publisher.rs:152  invalidate_production_cache("index*")
PlpInvalidate(p) ==
    LET r    == inv[p]
        path == <<Seg("index*")>>
        q    == IF cdnOn THEN Logged(r, "invalidate", path, TRUE) ELSE r
    IN  /\ r.op = "plp_prod" /\ r.pc = "invalidate"
        /\ inv' = [inv EXCEPT ![p] = Finish(q, "ok")]
        /\ UNCHANGED <<db, store, clock, faults, cdnOn, stageHist, successes, cacheVars>>

\* publisher.rs:335-340  create_invalidation fails
PlpInvalidateFail(p) ==
    /\ cdnOn
    /\ Fails(p, "plp_prod", "invalidate", "CdnError")
    /\ UNCHANGED <<db, store, clock, cdnOn, stageHist, successes, cacheVars>>

\* An article after its first staging and promotion at tick 0, and the
\* bucket these two calls leave
PublishedOnce(id) ==
    PublishedRecord(StagedRecord(NewArticle, id, Timestamp(0), "alice"),
                    id, Timestamp(0), "lambda")

BucketOf(ids) ==
    [k \in UNION {{StagingKey(id, Langs[j]) : j \in 1..Len(Langs)}
                  \cup {ProductionKey(id, Langs[j]) : j \in 1..Len(Langs)}
                    : id \in ids}
        |-> LET j == CHOOSE j \in 1..Len(Langs) :
                        \E id \in ids : k[3] = PdpFile(id, Langs[j])
            IN  Render(NewArticle, Langs[j], Timestamp(0))]

\* a default page production/index.html put in place when the site was set
\* up, before any listing was promoted
WithDefaultPage(s) ==
    PutObject(s, PlpProductionKey(Len(PlpFiles)),
              RenderListing({}, "en", Timestamp(0)))

\* the listing page is published over a table whose articles are fresh or
\* published once, in a bucket with or without a default page
InitPlp ==
    /\ \E pub \in SUBSET Ids, seeded \in BOOLEAN :
          /\ db = [id \in Ids |->
                    IF id \in pub THEN PublishedOnce(id) ELSE NewArticle]
          /\ store = IF seeded THEN WithDefaultPage(BucketOf(pub))
                      ELSE BucketOf(pub)
          /\ successes = [id \in Ids |-> IF id \in pub THEN 1 ELSE 0]
    /\ clock = 0
    /\ faults = 0
    /\ cdnOn \in BOOLEAN
    /\ inv = [p \in {1} |-> Idle]
    /\ stageHist = [id \in Ids |-> NoHist]
    /\ NoCacheInUse

\* steps of the Publisher when every backend call succeeds
PublisherStep ==
    \/ \E p \in Slots, id \in Ids, actor \in StageActors :
            PublishArticleToStagingStart(p, id, actor)
    \/ \E p \in Slots : StagingUpload(p)
    \/ \E p \in Slots : StagingSave(p)
    \/ \E p \in Slots, id \in Ids, actor \in ProdActors :
            PublishArticleToProductionStart(p, id, actor)
    \/ \E p \in Slots : BackupArticlePdp(p)
    \/ \E p \in Slots : PromoteArticleStagingToProduction(p)
    \/ \E p \in Slots : ProductionSave(p)
    \/ \E p \in Slots : ProductionInvalidate(p)
    \/ \E p \in Slots, arg \in RollbackArgs : RollbackStart(p, arg)
    \/ \E p \in Slots : RollbackCopy(p)
    \/ \E p \in Slots : RollbackInvalidate(p)
    \/ \E p \in Slots : Return(p)

\* steps of the Publisher in which a backend call fails
PublisherFailure ==
    \/ \E p \in Slots, id \in Ids, op \in {"stage", "prod"} : GetArticleFail(p, id, op)
    \/ \E p \in Slots : StagingUploadFail(p)
    \/ \E p \in Slots : StagingSaveFail(p)
    \/ \E p \in Slots : BackupArticlePdpFail(p)
    \/ \E p \in Slots : PromoteArticleStagingToProductionFail(p)
    \/ \E p \in Slots : ProductionSaveFail(p)
    \/ \E p \in Slots : ProductionInvalidateFail(p)
    \/ \E p \in Slots : RollbackListFail(p)
    \/ \E p \in Slots : RollbackCopyFail(p)
    \/ \E p \in Slots : RollbackInvalidateFail(p)

\* requests to the admin API of the blog service
AdminStep ==
    \/ \E p \in Slots, id \in Ids : PublishToStagingStart(p, id)
    \/ \E p \in Slots, id \in Ids : PublishToProductionStart(p, id)
    \/ \E p \in Slots, id \in Ids, st \in Statuses \cup {""}, edit \in BOOLEAN :
            UpdateArticleStart(p, id, st, edit)
    \/ \E p \in Slots, id \in Ids : UnpublishArticleStart(p, id)
    \/ \E p \in Slots, arg \in RollbackArgs : ApiRollback(p, arg)
    \/ \E p \in Slots : UpdateArticleSave(p)
    \/ \E p \in Slots : UpdateArticleSaveFail(p)

\* the Publisher alone, one invocation at a time, with failing backends
Next == Tick \/ PublisherStep \/ PublisherFailure

Spec == Init /\ [][Next]_vars

\* the Publisher with failing backends while the clock stands within one
\* minute
NextFailing == PublisherStep \/ PublisherFailure

SpecFailing == Init /\ [][NextFailing]_vars

\* staging and promotion with reliable backends, while an editor changes
\* title and text through PUT /admin/articles/:id and time passes
NextEditor ==
    \/ Tick
    \/ \E p \in Slots, id \in Ids, actor \in StageActors :
            PublishArticleToStagingStart(p, id, actor)
    \/ \E p \in Slots : StagingUpload(p)
    \/ \E p \in Slots : StagingSave(p)
    \/ \E p \in Slots, id \in Ids, actor \in ProdActors :
            PublishArticleToProductionStart(p, id, actor)
    \/ \E p \in Slots : BackupArticlePdp(p)
    \/ \E p \in Slots : PromoteArticleStagingToProduction(p)
    \/ \E p \in Slots : ProductionSave(p)
    \/ \E p \in Slots : ProductionInvalidate(p)
    \/ \E p \in Slots, id \in Ids, edit \in BOOLEAN :
            UpdateArticleStart(p, id, "", edit)
    \/ \E p \in Slots : UpdateArticleSave(p)
    \/ \E p \in Slots : Return(p)

SpecEditor == Init /\ [][NextEditor]_vars

\* the Publisher and the admin API on the same table, one request at a time
NextAdmin == Tick \/ PublisherStep \/ AdminStep

SpecAdmin == Init /\ [][NextAdmin]_vars

\* steps of the listing-page operations when every backend call succeeds
PlpStep ==
    \/ \E p \in Slots : PublishPlpToStagingStart(p)
    \/ \E p \in Slots : PlpStagingUpload(p)
    \/ \E p \in Slots : PublishPlpToProductionStart(p)
    \/ \E p \in Slots : BackupPlp(p)
    \/ \E p \in Slots : PromotePlpStagingToProduction(p)
    \/ \E p \in Slots : PlpInvalidate(p)
    \/ \E p \in Slots : Return(p)

\* steps of the listing-page operations in which a backend call fails
PlpFailure ==
    \/ \E p \in Slots : PublishPlpToStagingStartFail(p)
    \/ \E p \in Slots : PlpStagingUploadFail(p)
    \/ \E p \in Slots : BackupPlpFail(p)
    \/ \E p \in Slots : PromotePlpStagingToProductionFail(p)
    \/ \E p \in Slots : PlpInvalidateFail(p)

\* the listing page alone, one invocation at a time, with failing backends
NextPlp == Tick \/ PlpStep \/ PlpFailure

SpecPlp == InitPlp /\ [][NextPlp]_vars

\* article pages and listing page published in turn over the same bucket
\* and table, every backend call succeeding
NextSite == PublisherStep \/ PlpStep

SpecSite == InitPlp /\ [][NextSite]_vars

\* two Lambda instances: each invocation is a sequence of awaited backend
\* calls, and the calls of two invocations interleave freely
InitRace ==
    /\ db = [id \in Ids |-> NewArticle]
    /\ store = <<>>
    /\ clock = 0
    /\ faults = 0
    /\ cdnOn = FALSE
    /\ inv = [p \in {1, 2} |-> Idle]
    /\ stageHist = [id \in Ids |-> NoHist]
    /\ NoCacheInUse
    /\ successes = [id \in Ids |-> 0]

\* staging requests go to the first instance and promotions to the
\* second, every backend call succeeding
NextRace ==
    \/ \E id \in Ids, actor \in StageActors :
            PublishArticleToStagingStart(1, id, actor)
    \/ \E p \in Slots : StagingUpload(p)
    \/ \E p \in Slots : StagingSave(p)
    \/ \E id \in Ids, actor \in ProdActors :
            PublishArticleToProductionStart(2, id, actor)
    \/ \E p \in Slots : BackupArticlePdp(p)
    \/ \E p \in Slots : PromoteArticleStagingToProduction(p)
    \/ \E p \in Slots : ProductionSave(p)
    \/ \E p \in Slots : ProductionInvalidate(p)
    \/ \E p \in Slots : Return(p)

SpecRace == InitRace /\ [][NextRace]_vars

\* two Lambda instances that both promote: an article is staged while
\* nothing else runs, and promotions of it start on either instance while no
\* staging runs, their backend calls interleaving freely
NextPromotions ==
    \/ \E id \in Ids, actor \in StageActors :
            /\ \A q \in Slots : inv[q] = Idle
            /\ PublishArticleToStagingStart(1, id, actor)
    \/ \E p \in Slots : StagingUpload(p)
    \/ \E p \in Slots : StagingSave(p)
    \/ \E p \in Slots, id \in Ids, actor \in ProdActors :
            /\ \A q \in Slots : inv[q].op # "stage"
            /\ PublishArticleToProductionStart(p, id, actor)
    \/ \E p \in Slots : BackupArticlePdp(p)
    \/ \E p \in Slots : PromoteArticleStagingToProduction(p)
    \/ \E p \in Slots : ProductionSave(p)
    \/ \E p \in Slots : ProductionInvalidate(p)
    \/ \E p \in Slots : Return(p)

SpecPromotions == InitRace /\ [][NextPromotions]_vars

\* --------------------------------------------------- Cache, call by call
\* Each method holds the RwLock for its whole body, so a call is one step.
InitCache ==
    /\ db = [id \in Ids |-> NewArticle]
    /\ store = <<>>
    /\ clock = 0
    /\ faults = 0
    /\ cdnOn = FALSE
    /\ inv = [p \in {1} |-> Idle]
    /\ stageHist = [id \in Ids |-> NoHist]
    /\ successes = [id \in Ids |-> 0]
    /\ \E t \in Ttls : cache = NewCache(t)
    /\ instant = 0
    /\ cacheCall = NoCall
    /\ cacheHist = [k \in Keys |-> NoKeyHist]

\* time passes on the monotonic clock
InstantTick ==
    /\ instant < MaxInstant
    /\ instant' = instant + 1
    /\ UNCHANGED <<pubVars, cache, cacheCall, cacheHist>>

\* cache.get(key)
GetCall(key) ==
    LET ret == CacheGet(cache, key, instant)
    IN  /\ cacheCall' = [NoCall EXCEPT !.op = "get", !.key = key, !.ret = ret,
                                       !.now = instant]
        /\ cacheHist' = [cacheHist EXCEPT ![key].lapsed =
                            @ \/ (key \in DOMAIN cache.data /\ ~ret.some)]
        /\ UNCHANGED <<pubVars, cache, instant>>

\* cache.set(key, value)
SetCall(key, value) ==
    /\ cache' = CacheSet(cache, key, value, instant)
    /\ cacheCall' = [NoCall EXCEPT !.op = "set", !.key = key, !.value = value,
                                   !.now = instant]
    /\ cacheHist' = [cacheHist EXCEPT ![key] =
                        [@ EXCEPT !.live = TRUE, !.value = value,
                                  !.at = instant, !.invalidated = FALSE]]
    /\ UNCHANGED <<pubVars, instant>>

\* cache.invalidate(key)
InvalidateCall(key) ==
    /\ cache' = CacheInvalidate(cache, key)
    /\ cacheCall' = [NoCall EXCEPT !.op = "invalidate", !.key = key,
                                   !.now = instant]
    /\ cacheHist' = [cacheHist EXCEPT ![key] =
                        [@ EXCEPT !.live = FALSE, !.invalidated = TRUE]]
    /\ UNCHANGED <<pubVars, instant>>

\* cache.clear()
ClearCall ==
    /\ cache' = CacheClear(cache)
    /\ cacheCall' = [NoCall EXCEPT !.op = "clear", !.now = instant]
    /\ cacheHist' = [k \in Keys |-> [cacheHist[k] EXCEPT !.live = FALSE]]
    /\ UNCHANGED <<pubVars, instant>>

\* cache.cleanup(): the history drops the keys whose last set lies a TTL
\* or more back
CleanupCall ==
    /\ cache' = CacheCleanup(cache, instant)
    /\ cacheCall' = [NoCall EXCEPT !.op = "cleanup", !.now = instant]
    /\ cacheHist' = [k \in Keys |->
                        [cacheHist[k] EXCEPT !.live =
                            @ /\ instant < cacheHist[k].at + cache.ttl]]
    /\ UNCHANGED <<pubVars, instant>>

\* cache.size()
SizeCall ==
    /\ cacheCall' = [NoCall EXCEPT !.op = "size", !.size = CacheSize(cache),
                                   !.now = instant]
    /\ UNCHANGED <<pubVars, cache, instant, cacheHist>>

NextCache ==
    \/ InstantTick
    \/ \E key \in Keys : GetCall(key)
    \/ \E key \in Keys, value \in Vals : SetCall(key, value)
    \/ \E key \in Keys : InvalidateCall(key)
    \/ ClearCall
    \/ CleanupCall
    \/ SizeCall

SpecCache == InitCache /\ [][NextCache]_vars

\* list_backups over the buckets it may meet
NextBackups ==
    \/ \E p \in Slots : ListBackupsCall(p)
    \/ \E p \in Slots : Return(p)

SpecBackups == InitBackups /\ [][NextBackups]_vars

\* =================================================================== claims
ProdOps == {"prod", "api_prod"}
StageOps == {"stage", "api_stage"}

\* the object-store writes an invocation has made so far
StoreWrites(r) ==
    {r.log[k].key : k \in {j \in 1..Len(r.log) :
        r.log[j].e \in {"put", "backup", "promote", "restore"}}}

\* the events of kind e in a log, as positions
Positions(log, kinds) == {j \in 1..Len(log) : log[j].e \in kinds}

\* C1: publish_to_production on an article whose stored status is neither
\* Staged nor Published fails with InvalidState, writes no object and leaves
\* the article record as it was (no backend failure involved).
C1_ProductionRejectsOtherStatus ==
    \A p \in Slots :
        LET r == inv[p]
        IN  (/\ r.pc = "done" /\ r.op \in ProdOps /\ faults = 0
             /\ r.article.status \notin {"staged", "published"})
            => /\ r.res \in {"InvalidState", "BAD_REQUEST"}
               /\ StoreWrites(r) = {}
               /\ db[r.id] = r.article

\* C2: publish_to_staging on an article whose stored status is neither
\* Approved nor Staged fails with InvalidState, writes no staging object and
\* leaves the article record as it was (no backend failure involved).
C2_StagingRejectsOtherStatus ==
    \A p \in Slots :
        LET r == inv[p]
        IN  (/\ r.pc = "done" /\ r.op \in StageOps /\ faults = 0
             /\ r.article.status \notin {"approved", "staged"})
            => /\ r.res \in {"InvalidState", "BAD_REQUEST"}
               /\ StoreWrites(r) = {}
               /\ db[r.id] = r.article

\* C3: a publish_to_production that returns success leaves the stored
\* version at the version read before the call plus one, and the first
\* promotion of an article that returns success leaves version = 1.
C3_VersionPlusOne ==
    \A p \in Slots :
        LET r == inv[p]
        IN  (r.pc = "done" /\ r.op \in ProdOps /\ r.res = "ok")
            => /\ db[r.id].version = r.article.version + 1
               /\ successes[r.id] = 0 => db[r.id].version = 1

\* C10: whenever an article's stored status is Published, the production
\* objects of all three languages exist.
C10_PublishedHasArtifacts ==
    \A id \in Ids :
        db[id].status = "published"
            => \A k \in 1..Len(Langs) : ProductionKey(id, Langs[k]) \in DOMAIN store

\* C4: a step of a rollback invocation (with or without a timestamp,
\* succeeding or failing) leaves the article table as it is.
C4_RollbackKeepsArticles ==
    [][(\E p \in Slots :
            /\ inv'[p] # inv[p]
            /\ inv[p].op = "rollback" \/ inv'[p].op = "rollback")
        => db' = db]_vars

\* C4 witness: a rollback without timestamp has copied a backup and returned
\* success while the article is Published at version 2
C4_Witness ==
    \E p \in Slots :
        /\ inv[p].op = "rollback" /\ inv[p].pc = "done" /\ inv[p].res = "ok"
        /\ inv[p].arg = <<>>
        /\ \E k \in DOMAIN store : HasPrefix(k, inv[p].prefix)
        /\ \E id \in Ids : db[id].status = "published" /\ db[id].version = 2

\* the timestamps under which backups of an article's page can lie
BackupStamps == {FormatMinute(Timestamp(c)) : c \in 0..MaxClock}

\* the backup keys of one page of an article that the bucket holds
BackupsOf(s, id, lang) ==
    {parts \in BackupStamps : ArticleBackupKey(id, parts, lang) \in DOMAIN s}

\* the most recent of them
LatestBackupOf(s, id, lang) ==
    CHOOSE parts \in BackupsOf(s, id, lang) :
        \A q \in BackupsOf(s, id, lang) : ParseRfc3339(q) <= ParseRfc3339(parts)

\* C5: after rollback() without timestamp has returned success, every
\* production page of an article holds the content of its most recent
\* backup.
C5_RollbackRestoresLastBackup ==
    \A p \in Slots :
        (/\ inv[p].op = "rollback" /\ inv[p].pc = "done" /\ inv[p].res = "ok"
         /\ inv[p].arg = <<>>)
        => \A id \in Ids : \A k \in 1..Len(Langs) :
              BackupsOf(store, id, Langs[k]) # {}
              => /\ ProductionKey(id, Langs[k]) \in DOMAIN store
                 /\ store[ProductionKey(id, Langs[k])] =
                      store[ArticleBackupKey(id,
                              LatestBackupOf(store, id, Langs[k]), Langs[k])]

\* C6: when publish_to_production has run its backup step over a production
\* page that existed, list_backups() afterwards has an entry that covers the
\* backup of that page and whose created_at is not before the minute in
\* which the promotion started.
C6_BackupListedAfterPromotion ==
    \A p \in Slots :
        LET r == inv[p]
            existed == Positions(r.log, {"backup", "backup_error"})
            start == Timestamp(r.t0) - (Timestamp(r.t0) % 60)
            infos == ListBackups(store)
        IN  (r.op = "prod" /\ r.pc = "done" /\ existed # {})
            => \A j \in existed :
                 \E n \in 1..Len(infos) :
                    /\ HasPrefix(r.log[j].key, infos[n].path)
                    /\ r.log[j].key \in DOMAIN store
                    /\ infos[n].created_at >= start

\* the instant a folder name below backups/ denotes, read off independently
\* of parse_timestamp: the minute of the clock it was formatted from, the
\* one well-formed legacy name, and 0 for every other name
DenotedInstant(seg) ==
    IF \E c \in 0..MaxClock : seg = TsSeg(FormatMinute(Timestamp(c)))
    THEN LET c == CHOOSE c \in 0..MaxClock : seg = TsSeg(FormatMinute(Timestamp(c)))
         IN  Timestamp(c) - (Timestamp(c) % 60)
    ELSE IF seg = TsSeg(<<2024, 2, 29, 10, 0>>) THEN 1709200800
    ELSE 0

\* the folders below backups/ that list_backups has to report
ListedDirs(s) ==
    {k[2] : k \in {x \in DOMAIN s : Len(x) > 2 /\ x[1] = Seg("backups")}}
        \ {Seg("latest")}

\* C7: list_backups() returns one entry per backup folder, ordered by
\* created_at from the most recent to the oldest, where created_at is the
\* instant the folder name denotes and 0 for a name that is no timestamp;
\* a malformed name does not make the call fail.
C7_ListBackupsSortedDescending ==
    \A p \in Slots :
        LET r == inv[p]
            L == r.infos
        IN  (r.op = "list" /\ r.pc = "done")
            => /\ r.res = "ok"
               /\ {L[n].timestamp : n \in 1..Len(L)} = ListedDirs(store)
               /\ Len(L) = Cardinality(ListedDirs(store))
               /\ \A n \in 1..Len(L) :
                     L[n].created_at = DenotedInstant(L[n].timestamp)
               /\ \A m, n \in 1..Len(L) :
                     m < n => L[m].created_at >= L[n].created_at

\* C7 witness: a listing with two entries of different instants and an
\* entry whose five fields are no date
C7_Witness ==
    \E p \in Slots :
        LET L == inv[p].infos
        IN  /\ inv[p].op = "list" /\ inv[p].pc = "done"
            /\ \E m, n \in 1..Len(L) :
                  /\ L[m].created_at > L[n].created_at /\ L[n].created_at > 0
            /\ \E n \in 1..Len(L) : L[n].timestamp = TsSeg(<<2024, 13, 1, 0, 0>>)

\* the premise of C8: a staging has returned success and the record it
\* read is the record the previous successful staging left, no write to
\* the article or its staging pages having happened in between
SecondStagingInARow(p) ==
    /\ inv[p].op = "stage" /\ inv[p].pc = "done" /\ inv[p].res = "ok"
    /\ stageHist[inv[p].id].valid
    /\ inv[p].article = stageHist[inv[p].id].rec

\* C8 as stated: the second of two stagings in a row leaves the three
\* staging pages with the content the first one wrote, and status Staged.
C8_StagingIdempotent ==
    \A p \in Slots :
        SecondStagingInARow(p)
        => /\ StagingObjs(store, inv[p].id) = stageHist[inv[p].id].objs
           /\ db[inv[p].id].status = "staged"

\* C8 amended: the same, for two stagings in a row that both run within
\* one calendar year (UTC).
C8_StagingIdempotentWithinYear ==
    \A p \in Slots :
        (/\ SecondStagingInARow(p)
         /\ FormatYear(Timestamp(stageHist[inv[p].id].t0)) = FormatYear(Now))
        => /\ StagingObjs(store, inv[p].id) = stageHist[inv[p].id].objs
           /\ db[inv[p].id].status = "staged"

\* C8 witness: a second staging in a row has returned within the year of
\* the first, after the content had been edited before the first
C8_Witness ==
    \E p \in Slots :
        /\ SecondStagingInARow(p)
        /\ FormatYear(Timestamp(stageHist[inv[p].id].t0)) = FormatYear(Now)
        /\ db[inv[p].id].rev = 1
        /\ \A k \in 1..Len(Langs) :
              StagingObjs(store, inv[p].id)[k].lang = Langs[k]

\* C9: in a publish_to_production invocation every backup copy has been
\* attempted before the first production page is written, the article
\* record is saved only after all three pages have been promoted, and the
\* invalidation is requested only after the record has been saved.
C9_StepsInOrder ==
    \A p \in Slots :
        LET L == inv[p].log
            backups  == Positions(L, {"backup", "backup_missing", "backup_error"})
            promotes == Positions(L, {"promote"})
            saves    == Positions(L, {"save"})
            invals   == Positions(L, {"invalidate"})
        IN  inv[p].op = "prod"
            => /\ \A j \in promotes :
                    /\ Cardinality({b \in backups : b < j}) = Len(Langs)
                    /\ backups \subseteq 1..(j - 1)
               /\ \A j \in saves :
                    /\ Cardinality({m \in promotes : m < j}) = Len(Langs)
                    /\ \A k \in 1..Len(Langs) : \E m \in promotes :
                          m < j /\ L[m].key = ProductionKey(inv[p].id, Langs[k])
               /\ \A j \in invals : \E m \in saves : m < j
               /\ (inv[p].pc = "done" /\ inv[p].res = "ok") => saves # {}

\* C9 witness: a promotion over existing production pages has returned
\* success with all four steps made
C9_Witness ==
    \E p \in Slots :
        LET L == inv[p].log
        IN  /\ inv[p].op = "prod" /\ inv[p].pc = "done" /\ inv[p].res = "ok"
            /\ Cardinality(Positions(L, {"backup"})) = Len(Langs)
            /\ Cardinality(Positions(L, {"promote"})) = Len(Langs)
            /\ Positions(L, {"save"}) # {}
            /\ Positions(L, {"invalidate"}) # {}

\* no page of the article is in production
NoPages == [k \in 1..Len(Langs) |-> NoObject]

\* C11: a publish_to_production of a Staged article that has no production
\* page yet, with no backend failure, finds nothing to back up in all three
\* languages, writes no object under backups/, copies the three staging
\* pages to production and returns success with status Published and
\* version 1.
C11_FirstPublishSkipsBackup ==
    \A p \in Slots :
        LET r == inv[p]
        IN  (/\ r.op = "prod" /\ r.pc = "done" /\ faults = 0
             /\ r.article.status = "staged"
             /\ r.before = NoPages)
            => /\ r.res = "ok"
               /\ Cardinality(Positions(r.log, {"backup_missing"})) = Len(Langs)
               /\ Positions(r.log, {"backup", "backup_error"}) = {}
               /\ \A k \in DOMAIN store : k[1] # Seg("backups")
               /\ Cardinality(Positions(r.log, {"promote"})) = Len(Langs)
               /\ ProductionObjs(store, r.id) = StagingObjs(store, r.id)
               /\ \A k \in 1..Len(Langs) :
                     ProductionKey(r.id, Langs[k]) \in DOMAIN store
               /\ db[r.id].status = "published"
               /\ db[r.id].version = 1

\* C11 witness: the first promotion of a Staged article has returned success
C11_Witness ==
    \E p \in Slots :
        /\ inv[p].op = "prod" /\ inv[p].pc = "done" /\ inv[p].res = "ok"
        /\ faults = 0
        /\ inv[p].article.status = "staged"
        /\ inv[p].before = NoPages
        /\ db[inv[p].id].version = 1

\* C12: when a publish_to_production over existing production pages has
\* returned success and no backup copy of it failed, the backup key of each
\* language under the invocation's timestamp holds the content the
\* production key held when the invocation began.
C12_BackupHoldsPreviousContent ==
    \A p \in Slots :
        LET r == inv[p]
        IN  (/\ r.op = "prod" /\ r.pc = "done" /\ r.res = "ok"
             /\ Positions(r.log, {"backup_error"}) = {}
             /\ \A k \in 1..Len(Langs) : r.before[k] # NoObject)
            => \A k \in 1..Len(Langs) :
                  /\ ArticleBackupKey(r.id, r.bts, Langs[k]) \in DOMAIN store
                  /\ store[ArticleBackupKey(r.id, r.bts, Langs[k])] = r.before[k]

\* C12 witness: such a promotion has replaced every production page by a
\* different one
C12_Witness ==
    \E p \in Slots :
        /\ inv[p].op = "prod" /\ inv[p].pc = "done" /\ inv[p].res = "ok"
        /\ Positions(inv[p].log, {"backup_error"}) = {}
        /\ \A k \in 1..Len(Langs) :
              /\ inv[p].before[k] # NoObject
              /\ ProductionObjs(store, inv[p].id)[k] # inv[p].before[k]

\* C13: the step in which an operation requests the cache invalidation
\* ends the operation with success whether or not the request succeeds.
C13_InvalidationBestEffort ==
    [][\A p \in Slots :
          (inv[p].pc = "invalidate" /\ inv'[p].pc = "done")
          => inv'[p].res = "ok"]_vars

RollbackOps == {"rollback", "api_rollback"}

\* C14: a rollback without timestamp over a bucket that holds no backup
\* fails with NoBackupsAvailable, restores nothing and requests no
\* invalidation.
C14_RollbackWithoutBackupsFails ==
    \A p \in Slots :
        LET r == inv[p]
        IN  (/\ r.op \in RollbackOps /\ r.pc = "done" /\ r.arg = <<>>
             /\ faults = 0
             /\ \A k \in DOMAIN store : k[1] # Seg("backups"))
            => /\ r.res = "NoBackups"
               /\ Positions(r.log, {"restore", "invalidate"}) = {}

\* C15: no step lowers the stored publishing.version of an article.
C15_VersionNeverDecreases ==
    [][\A id \in Ids : db'[id].version >= db[id].version]_vars

\* C16: in every state published_at and production_url are set exactly
\* when the status is Published, and staged_at is set exactly when the
\* status has been Staged at some time: a Staged record has it, it is set
\* only by a step that leaves the status Staged, and once set it stays.
C16_PublishingFieldsConsistent ==
    /\ [](\A id \in Ids :
            /\ (db[id].published_at # NoTime) <=> (db[id].status = "published")
            /\ (db[id].production_url # "") <=> (db[id].status = "published")
            /\ (db[id].status = "staged") => (db[id].staged_at # NoTime))
    /\ [][\A id \in Ids :
            /\ (db[id].staged_at # NoTime) => (db'[id].staged_at # NoTime)
            /\ (db[id].staged_at = NoTime /\ db'[id].staged_at # NoTime)
                  => db'[id].status = "staged"]_vars

\* the edges of the documented state machine
StatusEdges ==
    {<<"pending", "approved">>, <<"pending", "rejected">>,
     <<"approved", "staged">>, <<"staged", "staged">>,
     <<"staged", "published">>, <<"published", "approved">>,
     <<"published", "staged">>}

\* C17: every article starts Pending, and a step that changes the stored
\* status of an article follows an edge of the state machine.
C17_StatusFollowsStateMachine ==
    /\ \A id \in Ids : db[id].status = "pending"
    /\ [][\A id \in Ids :
            db'[id].status # db[id].status
            => <<db[id].status, db'[id].status>> \in StatusEdges]_vars

\* C18: an object under backups/ keeps its content in every step.
C18_BackupsImmutable ==
    [][\A k \in DOMAIN store :
          k[1] = Seg("backups") => (k \in DOMAIN store' /\ store'[k] = store[k])]_vars

\* C19: when publish_to_production has ended with an error, the production
\* pages of the article are those of before the call and the article
\* record is the one the call read.
C19_AbortLeavesProductionUntouched ==
    \A p \in Slots :
        LET r == inv[p]
        IN  (r.op = "prod" /\ r.pc = "done" /\ r.res # "ok")
            => /\ ProductionObjs(store, r.id) = r.before
               /\ db[r.id] = r.article

\* no listing page
NoListing == [i \in 1..Len(PlpFiles) |-> NoObject]

\* C20: publish_plp_to_production run after publish_plp_to_staging while
\* no production listing page exists, with no backend failure, returns
\* success and leaves every production listing page equal to its staging
\* counterpart.
C20_FirstPlpPublishSucceeds ==
    \A p \in Slots :
        LET r == inv[p]
        IN  (/\ r.op = "plp_prod" /\ r.pc = "done" /\ faults = 0
             /\ r.before = NoListing
             /\ \A i \in 1..Len(PlpFiles) : PlpStagingKey(i) \in DOMAIN store)
            => /\ r.res = "ok"
               /\ PlpObjs(store, "production") = PlpObjs(store, "staging")

\* the keys of the listing: staging/index*, production/index*, backups/plp/
IsListingKey(k) ==
    \/ /\ k[1] \in {Seg("staging"), Seg("production")}
       /\ \E i \in 1..Len(PlpFiles) : k[2] = PlpFiles[i]
    \/ k[1] = Seg("backups") /\ k[2] = Seg("plp")

\* the keys under staging/articles/, production/articles/, backups/articles/
IsArticleKey(k) ==
    /\ k[1] \in {Seg("staging"), Seg("production"), Seg("backups")}
    /\ k[2] = Seg("articles")

\* the operation of the invocation that takes a step in slot p
StepOp(r, rNext) == IF r.op = "idle" THEN rNext.op ELSE r.op

\* C21: a step of publish_article_to_staging or publish_article_to_production
\* leaves every listing key as it is (present or absent, and its content),
\* and a step of publish_plp_to_staging or publish_plp_to_production leaves
\* the article table and every key under staging/articles/,
\* production/articles/ and backups/articles/ as they are.
C21_ArticleAndListingIndependent ==
    [][\A p \in Slots :
          inv'[p] # inv[p]
          => /\ StepOp(inv[p], inv'[p]) \in {"stage", "prod"}
                => \A k \in DOMAIN store \cup DOMAIN store' :
                      IsListingKey(k)
                      => /\ k \in DOMAIN store /\ k \in DOMAIN store'
                         /\ store'[k] = store[k]
             /\ StepOp(inv[p], inv'[p]) \in {"plp_stage", "plp_prod"}
                => /\ db' = db
                   /\ \A k \in DOMAIN store \cup DOMAIN store' :
                         IsArticleKey(k)
                         => /\ k \in DOMAIN store /\ k \in DOMAIN store'
                            /\ store'[k] = store[k]]_vars

\* C21 witness: a listing promotion has returned success over a bucket that
\* holds the article's pages and a backup of them, the article having been
\* promoted again after the listing was staged
C21_Witness ==
    \E p \in Slots :
        /\ inv[p].op = "plp_prod" /\ inv[p].pc = "done" /\ inv[p].res = "ok"
        /\ \E id \in Ids :
              /\ db[id].version = 2
              /\ \E k \in DOMAIN store :
                    HasPrefix(k, <<Seg("backups"), Seg("articles"), Seg(id)>>)
              /\ \A j \in 1..Len(Langs) :
                    ProductionKey(id, Langs[j]) \in DOMAIN store
        /\ \E k \in DOMAIN store : HasPrefix(k, <<Seg("backups"), Seg("plp")>>)

\* two promotions of one article that read the same record have both
\* returned success
BothPromoted(p, q) ==
    /\ p # q
    /\ inv[p].op = "prod" /\ inv[p].pc = "done" /\ inv[p].res = "ok"
    /\ inv[q].op = "prod" /\ inv[q].pc = "done" /\ inv[q].res = "ok"
    /\ inv[p].id = inv[q].id
    /\ inv[p].article.version = inv[q].article.version

\* C22: nothing keeps two publish_to_production calls on one article apart:
\* when two calls that read the same record have both returned success,
\* the stored version is the version they read plus one, not plus two.
C22_ConcurrentPromotionsLoseIncrement ==
    \A p, q \in Slots :
        BothPromoted(p, q)
        => db[inv[p].id].version = inv[p].article.version + 1

\* C22 witness: two concurrent promotions of a Staged article at version 0
\* have both returned success and the stored version is 1
C22_Witness ==
    \E p, q \in Slots :
        /\ BothPromoted(p, q)
        /\ inv[p].article.status = "staged" /\ inv[p].article.version = 0
        /\ db[inv[p].id].version = 1
        /\ db[inv[p].id].status = "published"

\* C23: get(key) returns the value of the most recent set(key, v) exactly
\* when that entry has not been removed since and the time of the get lies
\* strictly before the time of that set plus the TTL, and None otherwise;
\* so an elapsed entry reads None, and a later set makes the key readable
\* again until its own time plus the TTL.
C23_GetReturnsLiveEntry ==
    cacheCall.op = "get"
    => LET h == cacheHist[cacheCall.key]
       IN  cacheCall.ret =
              IF h.live /\ cacheCall.now < h.at + cache.ttl
              THEN Some(h.value) ELSE None

\* C23 witness: a get has returned the value of a set made at a later time
\* than 0, after an earlier get had found the key's entry expired
C23_Witness ==
    /\ cacheCall.op = "get" /\ cacheCall.ret.some
    /\ cacheHist[cacheCall.key].lapsed
    /\ cacheHist[cacheCall.key].at > 0
    /\ cacheCall.ret.value = cacheHist[cacheCall.key].value

\* C24: a get of a key that has been invalidated and not set since returns
\* None; a step that calls invalidate(key) leaves the entry of every other
\* key as it is, value and expiry, and leaves the whole map as it is when
\* the key is not present.
C24_InvalidateRemovesOnlyItsKey ==
    /\ [](cacheCall.op = "get" /\ cacheHist[cacheCall.key].invalidated
            => cacheCall.ret = None)
    /\ [][cacheCall'.op = "invalidate"
            => /\ \A k \in Keys \ {cacheCall'.key} :
                     /\ (k \in DOMAIN cache'.data) <=> (k \in DOMAIN cache.data)
                     /\ k \in DOMAIN cache.data
                          => cache'.data[k] = cache.data[k]
               /\ cacheCall'.key \notin DOMAIN cache.data => cache' = cache
               /\ cacheCall'.key \notin DOMAIN cache'.data]_vars

\* C24 witness: a get of an invalidated key whose last set has not yet
\* expired has returned None while another key holds a readable entry
C24_Witness ==
    /\ cacheCall.op = "get" /\ cacheCall.ret = None
    /\ cacheHist[cacheCall.key].invalidated
    /\ cacheCall.now < cacheHist[cacheCall.key].at + cache.ttl
    /\ \E k \in Keys \ {cacheCall.key} :
          CacheGet(cache, k, cacheCall.now).some

\* the keys that have been set and not removed since
LiveKeys == {k \in Keys : cacheHist[k].live}

\* C25: size() returns the number of keys that have been set and not since
\* removed by invalidate, clear or cleanup, expired or not, and the size is
\* 0 right after clear().
C25_SizeCountsStoredKeys ==
    /\ cacheCall.op = "size" => cacheCall.size = Cardinality(LiveKeys)
    /\ cacheCall.op = "clear" => CacheSize(cache) = 0

\* C25 witness: size() has returned 2 after a set of another key, while a
\* get of one of the two keys would return None because it has expired
C25_Witness ==
    /\ cacheCall.op = "size" /\ cacheCall.size = 2
    /\ \E k \in LiveKeys :
          /\ ~CacheGet(cache, k, cacheCall.now).some
          /\ \E j \in LiveKeys : cacheHist[j].at > cacheHist[k].at

\* C26: when a publish_to_production that ran alone has returned success,
\* each production page of the article exists and equals the staging page
\* of its language, and no step of the promotion changes a staging page.
C26_PromotionCopiesStaging ==
    /\ [](\A p \in Slots :
            (inv[p].op = "prod" /\ inv[p].pc = "done" /\ inv[p].res = "ok")
            => \A k \in 1..Len(Langs) :
                  /\ ProductionKey(inv[p].id, Langs[k]) \in DOMAIN store
                  /\ StagingKey(inv[p].id, Langs[k]) \in DOMAIN store
                  /\ store[ProductionKey(inv[p].id, Langs[k])] =
                        store[StagingKey(inv[p].id, Langs[k])])
    /\ [][\A p \in Slots :
            (inv'[p] # inv[p] /\ StepOp(inv[p], inv'[p]) = "prod")
            => \A id \in Ids : StagingObjs(store', id) = StagingObjs(store, id)]_vars

\* C26 witness: a promotion has returned success having replaced every
\* production page of the previous version by the page staged after it
C26_Witness ==
    \E p \in Slots :
        /\ inv[p].op = "prod" /\ inv[p].pc = "done" /\ inv[p].res = "ok"
        /\ db[inv[p].id].version = 2
        /\ \A k \in 1..Len(Langs) :
              /\ inv[p].before[k] # NoObject
              /\ ProductionObjs(store, inv[p].id)[k].version = 1
              /\ ProductionObjs(store, inv[p].id)[k].lang = Langs[k]
              /\ inv[p].before[k].version = 0

\* C27: after rollback(ts) with a timestamp under which a promotion wrote
\* a backup of an article's pages has returned success, each production
\* page that was backed up at ts holds the content of its backup (no
\* backend failure involved).
C27_RollbackToTimestampRestores ==
    \A p \in Slots :
        LET r == inv[p]
        IN  (/\ r.op = "rollback" /\ r.pc = "done" /\ r.res = "ok"
             /\ r.arg # <<>> /\ faults = 0)
            => \A id \in Ids : \A k \in 1..Len(Langs) :
                  ArticleBackupKey(id, r.arg[1].ts, Langs[k]) \in DOMAIN store
                  => /\ ProductionKey(id, Langs[k]) \in DOMAIN store
                     /\ store[ProductionKey(id, Langs[k])] =
                          store[ArticleBackupKey(id, r.arg[1].ts, Langs[k])]

\* a rollback with a timestamp under whose prefix the bucket holds nothing
RollbackToNothing(r) ==
    /\ r.op = "rollback" /\ r.arg # <<>>
    /\ ~\E k \in DOMAIN store : HasPrefix(k, <<Seg("backups")>> \o r.arg)

\* C28 as stated: rollback(ts) with a timestamp whose backup prefix holds
\* no object ends with NotFound (no backend failure involved).
C28_RollbackToMissingBackupFails ==
    \A p \in Slots :
        (RollbackToNothing(inv[p]) /\ inv[p].pc = "done" /\ faults = 0)
        => inv[p].res = "NotFound"

\* C28 amended: rollback(ts) with a timestamp whose backup prefix holds no
\* object returns success when no backend call fails, and none of its steps
\* changes an object of the bucket.
C28_RollbackToMissingBackupIsNoOp ==
    /\ [](\A p \in Slots :
            (RollbackToNothing(inv[p]) /\ inv[p].pc = "done" /\ faults = 0)
            => inv[p].res = "ok")
    /\ [][\A p \in Slots :
            (inv'[p] # inv[p] /\ RollbackToNothing(inv'[p]))
            => store' = store]_vars

\* C28 witness: such a rollback has returned while the article's pages are
\* in production and a backup of them lies under backups/articles/ with
\* the timestamp that was passed
C28_Witness ==
    \E p \in Slots :
        /\ RollbackToNothing(inv[p]) /\ inv[p].pc = "done" /\ faults = 0
        /\ Positions(inv[p].log, {"restore"}) # {}
        /\ \E id \in Ids : \A k \in 1..Len(Langs) :
              /\ ProductionKey(id, Langs[k]) \in DOMAIN store
              /\ ArticleBackupKey(id, inv[p].arg[1].ts, Langs[k]) \in DOMAIN store

\* C29: in publish_to_production, a backup copy of an existing production
\* page that fails ends the operation with the error before any production
\* page is written, and a production page that existed when the operation
\* began is overwritten only when its backup holds its previous content.
C29_BackupErrorAborts ==
    \A p \in Slots :
        LET r == inv[p]
        IN  r.op = "prod"
            => /\ Positions(r.log, {"backup_error"}) # {}
                  => /\ r.pc = "done" /\ r.res # "ok"
                     /\ Positions(r.log, {"promote"}) = {}
               /\ \A k \in 1..Len(Langs) :
                     (/\ r.before[k] # NoObject
                      /\ \E j \in Positions(r.log, {"promote"}) :
                            r.log[j].key = ProductionKey(r.id, Langs[k]))
                     => /\ ArticleBackupKey(r.id, r.bts, Langs[k]) \in DOMAIN store
                        /\ store[ArticleBackupKey(r.id, r.bts, Langs[k])]
                              = r.before[k]

\* what the pages of one publish_to_staging invocation have in common: all
\* but the language
RenderedFrom(page) == [page EXCEPT !.lang = ""]

\* C30: when a publish_to_production has returned success, the three
\* production pages of the article exist and stem from one and the same
\* publish_to_staging invocation, also when a staging of the article runs
\* on another instance during the promotion.
C30_NoTornPromotion ==
    \A p \in Slots :
        (inv[p].op = "prod" /\ inv[p].pc = "done" /\ inv[p].res = "ok")
        => \A j, k \in 1..Len(Langs) :
              /\ ProductionKey(inv[p].id, Langs[k]) \in DOMAIN store
              /\ RenderedFrom(ProductionObjs(store, inv[p].id)[j])
                    = RenderedFrom(ProductionObjs(store, inv[p].id)[k])
====
